---- MODULE Spec2Model ----
(***************************************************************************)
(* Model of End2End/data/_data_modules.py (Jointist): example construction *)
(* by Dataset, CompoundDataset, DatasetInstrumentsCluster (the last of the *)
(* three classes of that name, the one Python keeps),                      *)
(* DatasetInstrumentsCount and DatasetInstrumentsFilter, and the functions *)
(* get_single_note_onset_roll and collate_fn.                              *)
(*                                                                         *)
(* Times are integers counted in ticks of 1/TimeDen second.  The values    *)
(* the code computes in floating point (t * sample_rate, (t - start_time)  *)
(* * frames_per_second) are modelled as exact rationals n/TimeDen; int()   *)
(* truncates toward zero as Python's does.                                 *)
(***************************************************************************)
EXTENDS Integers, Sequences, FiniteSets, TLC

VARIABLES
    cls,        \* class of the dataset instance under construction/use
    cfg,        \* the instance's configuration (set by __init__)
    store,      \* the files a descriptor names (track store, note archive)
    tmp,        \* Dataset.tmp, the per-instance call counter
    data_dict,  \* the result of the last __getitem__ (or the raise)
    random_state, \* self.random_state: the words drawn from it so far
    handles     \* the files the process holds open

vars == <<cls, cfg, store, tmp, data_dict, random_state, handles>>

----------------------------------------------------------------------------
(* Bounds of the model *)

TimeDen == 4            \* ticks per second
SampleRate == 2         \* stands for SAMPLE_RATE (samples per second)
BeginNote == 1          \* stands for BEGIN_NOTE (lowest pitch of the rolls)
PianoNotesNum == 2      \* stands for CLASSES_NUM (pitches of a roll)
MaxTrackLen == 5        \* longest stored waveform, in samples
MaxStart == 8           \* latest start_time of a descriptor, in ticks
MaxCalls == 2           \* cap of the call counter Dataset.tmp
MaxNoteTime == 11       \* latest start or end of a note event, in ticks
MaxStems == 3           \* most stems of the enumerated note archives
MaxSegment == 8         \* longest segment_seconds of the frame counts, in ticks
MaxFps == 5             \* highest frames_per_second of the frame counts
MaxBatch == 2           \* most examples of a batch given to collate_fn
MaxDraws == 3           \* words of the random generator's stream in the model

INT16_SCALE == 32767

----------------------------------------------------------------------------
(* Arithmetic helpers *)

\* Python int(n/d) for d > 0: truncation toward zero.
IntTrunc(n, d) == IF n >= 0 THEN n \div d ELSE -((-n) \div d)

Min(a, b) == IF a <= b THEN a ELSE b
Max(a, b) == IF a >= b THEN a ELSE b

\* Python slice.indices(n) for a slice start:stop with step 1, as h5py and
\* numpy apply it: negative bounds count from the end, then both are clipped.
SliceBound(i, n) == IF i < 0 THEN Max(i + n, 0) ELSE Min(i, n)

\* The 0-based indices start:stop selects in an axis of length n.
SliceIndices(start, stop, n) ==
    { i \in 0..(n - 1) : SliceBound(start, n) <= i /\ i < SliceBound(stop, n) }

----------------------------------------------------------------------------
(* Floating-point values: an exact rational n/d in lowest terms (d > 0),   *)
(* or one of nan, inf (IEEE results of x/0), or irr (an irrational square  *)
(* root, which the model does not evaluate).                               *)

RECURSIVE GCD(_, _)
GCD(a, b) == IF b = 0 THEN a ELSE GCD(b, a % b)

Abs(x) == IF x < 0 THEN -x ELSE x

Rat(n, d) ==
    LET g == GCD(Abs(n), Abs(d))
        s == IF d < 0 THEN -1 ELSE 1
    IN  [k |-> "rat", n |-> (s * n) \div g, d |-> (s * d) \div g]

FloatZero == Rat(0, 1)
FloatOne == Rat(1, 1)
NaN == [k |-> "nan", n |-> 0, d |-> 1]
Inf == [k |-> "inf", n |-> 1, d |-> 1]
Irr == [k |-> "irr", n |-> 0, d |-> 1]

IsRat(x) == x.k = "rat"

\* a + b
FAdd(a, b) ==
    IF IsRat(a) /\ IsRat(b) THEN
        LET g == GCD(a.d, b.d)
        IN  Rat(a.n * (b.d \div g) + b.n * (a.d \div g), (a.d \div g) * b.d)
    ELSE IF a.k = "nan" \/ b.k = "nan" THEN NaN
    ELSE IF a.k = "irr" \/ b.k = "irr" THEN Irr
    ELSE Inf

\* a * b
FMul(a, b) ==
    IF IsRat(a) /\ IsRat(b) THEN
        LET g1 == GCD(Abs(a.n), b.d)
            g2 == GCD(Abs(b.n), a.d)
        IN  Rat((a.n \div g1) * (b.n \div g2), (a.d \div g2) * (b.d \div g1))
    ELSE IF a.k = "nan" \/ b.k = "nan" THEN NaN
    ELSE IF a.k = "inf" \/ b.k = "inf" THEN
        (IF (IsRat(a) /\ a.n = 0) \/ (IsRat(b) /\ b.n = 0) THEN NaN ELSE Inf)
    ELSE IF (IsRat(a) /\ a.n = 0) \/ (IsRat(b) /\ b.n = 0) THEN FloatZero
    ELSE Irr

\* a / b for a, b >= 0, as numpy divides: x/0 is inf, 0/0 is nan.
FDiv(a, b) ==
    IF a.k = "nan" \/ b.k = "nan" THEN NaN
    ELSE IF IsRat(a) /\ IsRat(b) THEN
        IF b.n = 0 THEN (IF a.n = 0 THEN NaN ELSE Inf)
        ELSE LET g1 == GCD(a.n, b.n)
                 g2 == GCD(a.d, b.d)
             IN  Rat((a.n \div g1) * (b.d \div g2), (a.d \div g2) * (b.n \div g1))
    ELSE IF a.k = "irr" \/ b.k = "irr" THEN Irr
    ELSE IF a.k = "inf" /\ b.k = "inf" THEN NaN
    ELSE IF a.k = "inf" THEN Inf
    ELSE FloatZero

\* The integer square root of a perfect square n >= 0, else -1.
ISqrt(n) ==
    IF \E r \in 0..n : r * r = n THEN CHOOSE r \in 0..n : r * r = n ELSE -1

\* x ** 0.5 for x >= 0
FSqrt(x) ==
    IF ~IsRat(x) THEN x
    ELSE IF ISqrt(x.n) >= 0 /\ ISqrt(x.d) >= 0 THEN Rat(ISqrt(x.n), ISqrt(x.d))
    ELSE Irr

----------------------------------------------------------------------------
(* The track store *)

\* The int16 sample stored at 0-based index i of a track.  A "ramp" track
\* stores non-zero samples that tell their position, a "full" track is at
\* full scale throughout, a "silent" track stores zeros.
TrackContents == {"ramp", "full", "silent"}
StoredSample(content, i) ==
    IF content = "ramp" THEN i + 1
    ELSE IF content = "full" THEN INT16_SCALE
    ELSE 0

\* jointist.utils.int16_to_float32: an int16 sample as an amplitude, the
\* rational num/den.
int16_to_float32(x) == Rat(x, INT16_SCALE)

\* librosa.util.fix_length(waveform, size): right-pad with zeros (or trim).
fix_length(waveform, size) ==
    [i \in 1..size |-> IF i <= Len(waveform) THEN waveform[i] ELSE FloatZero]

\* hf['waveform'][start_sample : end_sample] of a track of track_length
\* samples, converted by int16_to_float32.
ReadWaveform(track, start_sample, end_sample) ==
    LET lo == SliceBound(start_sample, track.track_length)
        hi == SliceBound(end_sample, track.track_length)
        n == Max(hi - lo, 0)
    IN  [i \in 1..n |-> int16_to_float32(StoredSample(track.content, lo + i - 1))]

\* Augmentor (jointist.data.augmentors): a random transformation of the
\* waveform that keeps its length; each call applies one of the gains 1, 2.
\* EffectsOf gives the effects a call can have: "none" when the dataset
\* has no augmentor.
Effects == {"gain1", "gain2"}
EffectsOf(augmentor) == IF augmentor = "none" THEN {"none"} ELSE Effects
ApplyAugmentor(effect, waveform) ==
    [i \in 1..Len(waveform) |->
        FMul(IF effect = "gain2" THEN Rat(2, 1) ELSE FloatOne, waveform[i])]

\* self.segment_samples = int(SAMPLE_RATE * self.segment_seconds)
SegmentSamples(segment_seconds) == IntTrunc(SampleRate * segment_seconds, TimeDen)

\* int(start_time * self.sample_rate)
StartSample(start_time) == IntTrunc(start_time * SampleRate, TimeDen)

LoadSegment_PadFirst(c, track, start_time, effect) ==
    LET segment_samples == SegmentSamples(c.segment_seconds)
        start_sample == StartSample(start_time)
        read == ReadWaveform(track, start_sample, start_sample + segment_samples)
        padded == fix_length(read, segment_samples)
    IN  [waveform |-> padded, valid_length |-> Len(padded)]

\* The waveform part shared by every __getitem__: the "with h5py.File"
\* block.  Returns the record of waveform and valid_length.
LoadSegment(c, track, start_time, effect) ==
    LET segment_samples == SegmentSamples(c.segment_seconds)
        start_sample == StartSample(start_time)
        end_sample == start_sample + segment_samples
        read == ReadWaveform(track, start_sample, end_sample)
        valid_length == IF Len(read) < segment_samples THEN Len(read) ELSE segment_samples
        padded == IF Len(read) < segment_samples THEN fix_length(read, segment_samples) ELSE read
        waveform == IF effect = "none" THEN padded ELSE ApplyAugmentor(effect, padded)
    IN  [waveform |-> waveform, valid_length |-> valid_length]

----------------------------------------------------------------------------
(* Dataset *)

NoResult == [ret |-> "none"]
Raised == [ret |-> "raise"]

SegmentSecondsSet == {2, 4, 6}

DatasetConfigs ==
    [segment_seconds : SegmentSecondsSet, augmentor : {"none", "random"},
     midi_events_hdf5s_dir : {"none", "dir"}]

Tracks == [exists : BOOLEAN, track_length : 0..MaxTrackLen, content : {"ramp"}]

\* "with h5py.File(path, 'r') as hf": the handle is closed when the block is
\* left, by its end or by an exception; a missing file raises before any
\* handle exists.  The handles open after the statement.
WithFile(open_handles, name) == (open_handles \cup {name}) \ {name}

\* pickle.load(open(pkl_path, 'rb')): the file object is not closed by the
\* code; it is closed when it is finalized, which the language leaves to the
\* garbage collector.  The handles that can be open after the statement.
OpenUnclosed(open_handles, name) == {open_handles, open_handles \cup {name}}

\* Dataset.__init__, and the files of the descriptor: the waveform file
\* and, when midi_events_hdf5s_dir is set, the MIDI events file.
InitDataset ==
    /\ cls = "Dataset"
    /\ cfg \in DatasetConfigs
    /\ store \in [track : Tracks, midi_exists : BOOLEAN]
    /\ tmp = 0
    /\ data_dict = NoResult
    /\ random_state = 0
    /\ handles = {}

\* Dataset.__getitem__([split, hdf5_name, start_time]).  The targets that
\* TargetProcessor makes of the MIDI events are left out of the result.
Dataset__getitem__(start_time, effect) ==
    /\ cls = "Dataset"
    /\ tmp < MaxCalls
    /\ IF ~store.track.exists
       THEN /\ data_dict' = Raised
            /\ tmp' = tmp
            /\ handles' = handles
       ELSE IF cfg.midi_events_hdf5s_dir # "none" /\ ~store.midi_exists
       THEN /\ data_dict' = Raised
            /\ tmp' = tmp
            /\ handles' = WithFile(handles, "waveform_hdf5")
       ELSE /\ data_dict' =
                 [ret |-> "ok", start_time |-> start_time]
                 @@ LoadSegment(cfg, store.track, start_time, effect)
            /\ tmp' = tmp + 1
            /\ handles' =
                 IF cfg.midi_events_hdf5s_dir # "none"
                 THEN WithFile(WithFile(handles, "waveform_hdf5"), "midi_events_hdf5")
                 ELSE WithFile(handles, "waveform_hdf5")
    /\ UNCHANGED <<cls, cfg, store, random_state>>

NextDataset ==
    /\ cls = "Dataset"
    /\ \E start_time \in 0..MaxStart, effect \in EffectsOf(cfg.augmentor) :
        Dataset__getitem__(start_time, effect)

SpecDataset == InitDataset /\ [][NextDataset]_vars

----------------------------------------------------------------------------
(* DatasetInstrumentsCluster: note events to rolls *)

\* A roll is a 0/1 array of shape (frames_num, piano_notes_num); the model
\* keeps the set of its cells <<frame, pitch>> that hold 1.
ZeroRoll == {}

\* frames_num = int(self.frames_per_second * self.segment_seconds) + 1
ClusterFramesNum(frames_per_second, segment_seconds) ==
    IntTrunc(frames_per_second * segment_seconds, TimeDen) + 1

\* The window test of the note loop: start or end strictly inside.
InWindow(note_event, start_time, segment_seconds) ==
    \/ (note_event.start > start_time /\ note_event.start < start_time + segment_seconds)
    \/ (note_event.end > start_time /\ note_event.end < start_time + segment_seconds)

BgnFrame_Absolute(note_event, start_time, frames_per_second) ==
    Max(0, IntTrunc(note_event.start * frames_per_second, TimeDen))

BgnFrame_NoClamp(note_event, start_time, frames_per_second) ==
    IntTrunc((note_event.start - start_time) * frames_per_second, TimeDen)

\* bgn_frame = max(0, int((note_event['start'] - start_time) * fps))
BgnFrame(note_event, start_time, frames_per_second) ==
    Max(0, IntTrunc((note_event.start - start_time) * frames_per_second, TimeDen))

EndFrame_NoClamp(note_event, start_time, frames_per_second, frames_num) ==
    IntTrunc((note_event.end - start_time) * frames_per_second, TimeDen)

\* end_frame = min(int((note_event['end'] - start_time) * fps), frames_num)
EndFrame(note_event, start_time, frames_per_second, frames_num) ==
    Min(IntTrunc((note_event.end - start_time) * frames_per_second, TimeDen), frames_num)

\* numpy's a[i] on an axis of length n: a negative i counts from the end,
\* an i outside -n..n-1 raises IndexError.
IndexOk(i, n) == -n <= i /\ i < n
NormIndex(i, n) == IF i < 0 THEN i + n ELSE i

\* The writes of one note event that passed the window test: the cells set
\* in the onset roll and in the frame roll, the raw frame indices the
\* writes use, and whether a write raises.
EncodeNote(note_event, start_time, c, frames_num) ==
    LET bgn_frame == BgnFrame(note_event, start_time, c.frames_per_second)
        end_frame == EndFrame(note_event, start_time, c.frames_per_second, frames_num)
        bgn_pitch == note_event.pitch - BeginNote
        col == NormIndex(bgn_pitch, PianoNotesNum)
        crossing == /\ note_event.start < start_time
                    /\ note_event.end > start_time
                    /\ note_event.end < start_time + c.segment_seconds
        span == SliceIndices(bgn_frame, end_frame, frames_num)
                \cup (IF crossing THEN SliceIndices(0, end_frame, frames_num) ELSE {})
    IN  IF ~(bgn_pitch < PianoNotesNum)
        THEN [onset |-> {}, frame |-> {}, indices |-> {}, raises |-> FALSE]
        ELSE IF ~IndexOk(bgn_frame, frames_num) \/ ~IndexOk(bgn_pitch, PianoNotesNum)
        THEN [onset |-> {}, frame |-> {}, indices |-> {bgn_frame}, raises |-> TRUE]
        ELSE [onset |-> {<<NormIndex(bgn_frame, frames_num), col>>},
              frame |-> {<<f, col>> : f \in span},
              indices |-> {bgn_frame, end_frame},
              raises |-> FALSE]

\* The note loop of one stem: for note_event in events_dict[key]['note_event'].
RECURSIVE EncodeStem(_, _, _, _, _)
EncodeStem(notes, j, start_time, c, frames_num) ==
    IF j > Len(notes)
    THEN [onset |-> ZeroRoll, frame |-> ZeroRoll, indices |-> {}, raises |-> FALSE]
    ELSE LET rest == EncodeStem(notes, j + 1, start_time, c, frames_num)
             this == IF InWindow(notes[j], start_time, c.segment_seconds)
                     THEN EncodeNote(notes[j], start_time, c, frames_num)
                     ELSE [onset |-> {}, frame |-> {}, indices |-> {}, raises |-> FALSE]
         IN  [onset |-> this.onset \cup rest.onset,
              frame |-> this.frame \cup rest.frame,
              indices |-> this.indices \cup rest.indices,
              raises |-> this.raises \/ rest.raises]

MixtureRoll_LastStem(rolls, n) == IF n = 0 THEN ZeroRoll ELSE rolls[n - 1]

\* mixture_onset_roll and mixture_frame_roll are allocated once, before the
\* loop over the stems, and every note writes into them the cells it writes
\* into its stem's roll: the cells of all the stems accumulate.
MixtureRoll(rolls, n) == UNION { rolls[i] : i \in 0..(n - 1) }

\* A function on 0..n-1 as an explicit table (every element evaluated once).
Materialize(f, n) ==
    LET Build[i \in 0..n] == IF i = 0 THEN <<>> ELSE Build[i - 1] @@ (i - 1 :> f[i - 1])
    IN  Build[n]

\* np.sum(sep_frame_roll) of a 0/1 roll.
RollSum(roll) == Cardinality(roll)

\* np.argsort(tmp): an index permutation that puts tmp in ascending order.
\* The default kind is not a stable sort, so equal values may come out in
\* any order.
Permutations0(n) ==
    { p \in [0..(n - 1) -> 0..(n - 1)] : \A i, j \in 0..(n - 1) : i # j => p[i] # p[j] }
ArgsortResults(activity, n) ==
    { p \in Permutations0(n) :
        \A i \in 0..(n - 2) : activity[p[i]] <= activity[p[i + 1]] }

Reversed_Ascending(p, n) == p

\* locts = np.argsort(tmp)[::-1]
Reversed(p, n) == [i \in 0..(n - 1) |-> p[n - 1 - i]]

SelectSlots_Wrap(rolls, locts, n, K) ==
    [i \in 0..(K - 1) |-> IF n > 0 THEN rolls[locts[i % n]] ELSE ZeroRoll]

\* The selection loop: for i in range(min(K, len(sep_frame_rolls))).
SelectSlots(rolls, locts, n, K) ==
    [i \in 0..(K - 1) |-> IF i < Min(K, n) THEN rolls[locts[i]] ELSE ZeroRoll]

\* Note archives (the pickled events_dict): stems 0..n-1 in archive order,
\* each with its note_event list.
Note(s, e, p) == [start |-> s, end |-> e, pitch |-> p]
Stem(notes) == [note_event |-> notes]
Archive(stems) == [i \in 0..(Len(stems) - 1) |-> stems[i + 1]]
StemsNum(events_dict) == Cardinality(DOMAIN events_dict)

Pitches == (BeginNote - 1)..(BeginNote + PianoNotesNum)

\* One stem holding one note: every interval at the lowest roll pitch, and
\* a few intervals at every pitch, also below and above the roll's range.
SingleNoteArchives ==
    { Archive(<<Stem(<<Note(s, e, BeginNote)>>)>>) :
        s \in 0..MaxNoteTime, e \in 0..MaxNoteTime } \cup
    { Archive(<<Stem(<<Note(se[1], se[2], p)>>)>>) :
        se \in {<<1, 3>>, <<4, 5>>, <<2, 9>>}, p \in Pitches }

\* Stems of differing activity, among them two of equal activity.
StemMenu ==
    { Stem(<<>>),
      Stem(<<Note(1, 4, BeginNote)>>),
      Stem(<<Note(2, 5, BeginNote + 1)>>),
      Stem(<<Note(1, 6, BeginNote)>>) }

RECURSIVE SeqsUpTo(_, _)
SeqsUpTo(S, n) ==
    IF n = 0 THEN {<<>>}
    ELSE LET shorter == SeqsUpTo(S, n - 1)
         IN  shorter \cup { Append(q, x) : q \in {r \in shorter : Len(r) = n - 1}, x \in S }

MultiStemArchives == { Archive(q) : q \in SeqsUpTo(StemMenu, MaxStems) }

ClusterStarts == {0, 1, 3}

FullTrack == [exists |-> TRUE, track_length |-> MaxTrackLen, content |-> "ramp"]

\* DatasetInstrumentsCluster.__init__, and the files of the descriptor.
InitCluster ==
    /\ cls = "DatasetInstrumentsCluster"
    /\ \/ /\ cfg \in [segment_seconds : SegmentSecondsSet, frames_per_second : {2, 3},
                      max_instruments_num : {2}, augmentor : {"none"}]
          /\ store \in [track : {FullTrack}, pkl_exists : {TRUE},
                        events_dict : {a \in SingleNoteArchives :
                                          a[0].note_event[1].start <= a[0].note_event[1].end}]
       \/ /\ cfg \in [segment_seconds : {8}, frames_per_second : {4},
                      max_instruments_num : 1..3, augmentor : {"none"}]
          /\ store \in [track : {FullTrack}, pkl_exists : {TRUE},
                        events_dict : MultiStemArchives]
       \/ /\ cfg \in [segment_seconds : {8}, frames_per_second : {4},
                      max_instruments_num : {2}, augmentor : {"none", "random"}]
          /\ store \in [track : Tracks, pkl_exists : BOOLEAN,
                        events_dict : {Archive(<<Stem(<<Note(1, 4, BeginNote)>>)>>),
                                       Archive(<<Stem(<<Note(0, 2, BeginNote), Note(3, 5, BeginNote + 1)>>),
                                                 Stem(<<Note(2, 6, BeginNote), Note(4, 4, BeginNote)>>)>>),
                                       Archive(<<Stem(<<Note(1, 6, BeginNote)>>),
                                                 Stem(<<>>),
                                                 Stem(<<Note(1, 4, BeginNote)>>),
                                                 Stem(<<Note(2, 5, BeginNote + 1)>>)>>)}]
    /\ tmp = 0
    /\ data_dict = NoResult
    /\ random_state = 0
    /\ handles = {}

\* DatasetInstrumentsCluster.__getitem__([split, hdf5_name, start_time])
Cluster__getitem__(start_time, effect) ==
    /\ cls = "DatasetInstrumentsCluster"
    /\ LET n == StemsNum(store.events_dict)
           K == cfg.max_instruments_num
           frames_num == ClusterFramesNum(cfg.frames_per_second, cfg.segment_seconds)
       IN  \E enc \in { Materialize([i \in 0..(n - 1) |->
                           EncodeStem(store.events_dict[i].note_event, 1,
                                      start_time, cfg, frames_num)], n) } :
           \E activity \in { Materialize([i \in 0..(n - 1) |-> RollSum(enc[i].frame)], n) } :
             IF ~store.track.exists \/ ~store.pkl_exists
             THEN data_dict' = Raised /\ handles' = handles
             ELSE IF \E i \in 0..(n - 1) : enc[i].raises
             THEN /\ data_dict' = Raised
                  /\ handles' \in OpenUnclosed(WithFile(handles, "waveform_hdf5"), "notes_pkl")
             ELSE \E p \in ArgsortResults(activity, n) :
                  LET locts == Reversed(p, n)
                      stem_onset_rolls == [i \in 0..(n - 1) |-> enc[i].onset]
                      stem_frame_rolls == [i \in 0..(n - 1) |-> enc[i].frame]
                  IN  /\ handles' \in OpenUnclosed(WithFile(handles, "waveform_hdf5"), "notes_pkl")
                      /\ data_dict' =
                        [ret |-> "ok",
                         start_time |-> start_time,
                         frames_num |-> frames_num,
                         indices |-> UNION { enc[i].indices : i \in 0..(n - 1) },
                         stem_onset_rolls |-> stem_onset_rolls,
                         stem_frame_rolls |-> stem_frame_rolls,
                         activity |-> activity,
                         locts |-> locts,
                         mixture_onset_roll |-> MixtureRoll(stem_onset_rolls, n),
                         mixture_frame_roll |-> MixtureRoll(stem_frame_rolls, n),
                         sep_onset_rolls |-> SelectSlots(stem_onset_rolls, locts, n, K),
                         sep_frame_rolls |-> SelectSlots(stem_frame_rolls, locts, n, K)]
                        @@ LoadSegment(cfg, store.track, start_time, effect)
    /\ UNCHANGED <<cls, cfg, store, tmp, random_state>>

NextCluster ==
    /\ cls = "DatasetInstrumentsCluster"
    /\ \E start_time \in ClusterStarts, effect \in EffectsOf(cfg.augmentor) :
        Cluster__getitem__(start_time, effect)

SpecCluster == InitCluster /\ [][NextCluster]_vars

----------------------------------------------------------------------------
(* DatasetInstrumentsCount *)

\* frames_num = self.frames_per_second * self.segment_seconds + 1
\* (no int(): the value is the float product plus one).
CountFramesNum(frames_per_second, segment_seconds) ==
    Rat(frames_per_second * segment_seconds + TimeDen, TimeDen)

\* The same statement in DatasetInstrumentsFilter.__getitem__.
FilterFramesNum(frames_per_second, segment_seconds) ==
    Rat(frames_per_second * segment_seconds + TimeDen, TimeDen)

\* The counting loop over the stems from stem i on: a stem with a note in
\* the window adds one; the loop stops once count == max_instruments_num - 1
\* (tested after every stem).
RECURSIVE CountStems(_, _, _, _, _)
CountStems(events_dict, i, count, start_time, c) ==
    IF i >= StemsNum(events_dict) THEN count
    ELSE LET hit == \E j \in 1..Len(events_dict[i].note_event) :
                        InWindow(events_dict[i].note_event[j], start_time, c.segment_seconds)
             count2 == IF hit THEN count + 1 ELSE count
         IN  IF count2 = c.max_instruments_num - 1 THEN count2
             ELSE CountStems(events_dict, i + 1, count2, start_time, c)

CountArchives ==
    { Archive(q) : q \in SeqsUpTo({Stem(<<>>), Stem(<<Note(1, 4, BeginNote)>>)}, 3) }

\* DatasetInstrumentsCount.__init__, and the files of the descriptor.
InitCount ==
    /\ cls = "DatasetInstrumentsCount"
    /\ cfg \in [segment_seconds : SegmentSecondsSet, frames_per_second : {2, 3},
                max_instruments_num : 1..3, augmentor : {"none", "random"}]
    /\ store \in [track : {FullTrack}, pkl_exists : BOOLEAN, events_dict : CountArchives]
    /\ tmp = 0
    /\ data_dict = NoResult
    /\ random_state = 0
    /\ handles = {}

\* DatasetInstrumentsCount.__getitem__([split, hdf5_name, start_time])
Count__getitem__(start_time, effect) ==
    /\ cls = "DatasetInstrumentsCount"
    /\ IF ~store.track.exists \/ ~store.pkl_exists
       THEN data_dict' = Raised /\ handles' = handles
       ELSE /\ handles' \in OpenUnclosed(WithFile(handles, "waveform_hdf5"), "notes_pkl")
            /\ data_dict' =
              [ret |-> "ok",
               start_time |-> start_time,
               frames_num |-> CountFramesNum(cfg.frames_per_second, cfg.segment_seconds),
               target |-> <<CountStems(store.events_dict, 0, 0, start_time, cfg)>>]
              @@ LoadSegment(cfg, store.track, start_time, effect)
    /\ UNCHANGED <<cls, cfg, store, tmp, random_state>>

NextCount ==
    /\ cls = "DatasetInstrumentsCount"
    /\ \E start_time \in ClusterStarts, effect \in EffectsOf(cfg.augmentor) :
        Count__getitem__(start_time, effect)

SpecCount == InitCount /\ [][NextCount]_vars

----------------------------------------------------------------------------
(* DatasetInstrumentsFilter *)

\* PLUGIN_LB_TO_IX and PLUGIN_LABELS_NUM (jointist.config): the plugin
\* labels and their indices.
PluginNames == {"piano", "bass"}
PLUGIN_LB_TO_IX(plugin_name) == IF plugin_name = "piano" THEN 0 ELSE 1
PLUGIN_LABELS_NUM == 2

\* A stem of the note archive with its plugin_name.
FilterStem(notes, plugin_name) == [note_event |-> notes, plugin_name |-> plugin_name]

\* indexes: the positions, in archive order, of the stems from stem i on
\* that have a note in the window.
RECURSIVE FilterIndexes(_, _, _, _)
FilterIndexes(events_dict, i, start_time, c) ==
    IF i >= StemsNum(events_dict) THEN <<>>
    ELSE LET hit == \E j \in 1..Len(events_dict[i].note_event) :
                        InWindow(events_dict[i].note_event[j], start_time, c.segment_seconds)
             rest == FilterIndexes(events_dict, i + 1, start_time, c)
         IN  IF hit THEN <<i>> \o rest ELSE rest

\* np.random.RandomState(1234): the generator yields a sequence of words
\* fixed by the seed; stream holds the two low bits of each, and
\* random_state counts the words drawn so far.
Streams == [1..MaxDraws -> 0..3]

\* The smallest mask 2^k - 1 >= max.
RECURSIVE Mask(_, _)
Mask(max, m) == IF m >= max THEN m ELSE Mask(max, 2 * m + 1)

\* randint(0, max + 1): words are drawn and masked until one is <= max.
\* value = -1 when the stream of the model is exhausted.
RECURSIVE BoundedDraw(_, _, _)
BoundedDraw(stream, pos, max) ==
    IF pos >= Len(stream) THEN [value |-> -1, pos |-> pos]
    ELSE LET v == stream[pos + 1] % (Mask(max, 0) + 1)
         IN  IF v <= max THEN [value |-> v, pos |-> pos + 1]
             ELSE BoundedDraw(stream, pos + 1, max)

Choice_AlwaysDraw(stream, pos, indexes) ==
    LET draw == BoundedDraw(stream, pos, Len(indexes) - 1)
    IN  [value |-> IF draw.value < 0 THEN -1 ELSE indexes[draw.value + 1],
         pos |-> draw.pos]

\* self.random_state.choice(indexes, size=1)[0]: a range of one value
\* draws no word.
Choice(stream, pos, indexes) ==
    IF Len(indexes) = 1 THEN [value |-> indexes[1], pos |-> pos]
    ELSE LET draw == BoundedDraw(stream, pos, Len(indexes) - 1)
         IN  [value |-> IF draw.value < 0 THEN -1 ELSE indexes[draw.value + 1],
              pos |-> draw.pos]

FilterArchives ==
    { Archive(<<>>),
      Archive(<<FilterStem(<<>>, "piano")>>),
      Archive(<<FilterStem(<<Note(1, 4, BeginNote)>>, "piano"),
                FilterStem(<<Note(2, 5, BeginNote)>>, "bass")>>),
      Archive(<<FilterStem(<<Note(1, 2, BeginNote)>>, "piano"),
                FilterStem(<<Note(1, 4, BeginNote)>>, "bass")>>),
      Archive(<<FilterStem(<<>>, "piano"),
                FilterStem(<<Note(1, 4, BeginNote)>>, "bass"),
                FilterStem(<<Note(1, 6, BeginNote)>>, "piano")>>),
      Archive(<<FilterStem(<<Note(1, 4, BeginNote)>>, "piano"),
                FilterStem(<<Note(2, 5, BeginNote)>>, "bass"),
                FilterStem(<<Note(1, 6, BeginNote)>>, "bass")>>) }

\* DatasetInstrumentsFilter.__init__, and the files of the descriptor:
\* the waveform file, the note archive and the stems' event files.
InitFilter ==
    /\ cls = "DatasetInstrumentsFilter"
    /\ cfg \in [segment_seconds : {8}, frames_per_second : {4}, augmentor : {"none"},
                stream : Streams]
    /\ store \in [track : {t \in Tracks : t.track_length = MaxTrackLen}, pkl_exists : BOOLEAN,
                  events_dict : FilterArchives,
                  stem_exists : { [i \in 0..2 |-> TRUE], [i \in 0..2 |-> i # 1] }]
    /\ tmp = 0
    /\ data_dict = NoResult
    /\ random_state = 0
    /\ handles = {}

\* DatasetInstrumentsFilter.__getitem__([split, hdf5_name, start_time]).
\* The targets that TargetProcessor makes of the stem's MIDI events are left
\* out of the result.
Filter__getitem__(start_time, effect) ==
    /\ cls = "DatasetInstrumentsFilter"
    /\ LET indexes == FilterIndexes(store.events_dict, 0, start_time, cfg)
           chosen == IF Len(indexes) = 0 THEN [value |-> 0, pos |-> random_state]
                     ELSE Choice(cfg.stream, random_state, indexes)
           index == chosen.value
       IN  /\ index >= 0
           /\ IF ~store.track.exists \/ ~store.pkl_exists
              THEN /\ data_dict' = Raised
                   /\ random_state' = random_state
                   /\ handles' = handles
              ELSE IF index >= StemsNum(store.events_dict)
              THEN /\ data_dict' = Raised
                   /\ random_state' = chosen.pos
                   /\ handles' \in OpenUnclosed(WithFile(handles, "waveform_hdf5"), "notes_pkl")
              ELSE IF ~store.stem_exists[index]
              THEN /\ data_dict' = Raised
                   /\ random_state' = chosen.pos
                   /\ handles' \in OpenUnclosed(WithFile(handles, "waveform_hdf5"), "notes_pkl")
              ELSE /\ data_dict' =
                        [ret |-> "ok",
                         start_time |-> start_time,
                         frames_num |-> FilterFramesNum(cfg.frames_per_second, cfg.segment_seconds),
                         indexes |-> indexes,
                         index |-> index,
                         plugin_target |->
                             [ix \in 0..(PLUGIN_LABELS_NUM - 1) |->
                                 IF ix = PLUGIN_LB_TO_IX(store.events_dict[index].plugin_name)
                                 THEN 1 ELSE 0]]
                        @@ LoadSegment(cfg, store.track, start_time, effect)
                   /\ random_state' = chosen.pos
                   /\ handles' \in { WithFile(h, "stem_hdf5") :
                          h \in OpenUnclosed(WithFile(handles, "waveform_hdf5"), "notes_pkl") }
    /\ UNCHANGED <<cls, cfg, store, tmp>>

NextFilter ==
    /\ cls = "DatasetInstrumentsFilter"
    /\ \E start_time \in ClusterStarts, effect \in EffectsOf(cfg.augmentor) :
        Filter__getitem__(start_time, effect)

SpecFilter == InitFilter /\ [][NextFilter]_vars

----------------------------------------------------------------------------
(* get_single_note_onset_roll *)

J == 5

\* frames_num = int(segment_seconds * frames_per_second + 1)
OnsetRollFramesNum(segment_seconds, frames_per_second) ==
    IntTrunc(segment_seconds * frames_per_second + TimeDen, TimeDen)

\* The write loop from step i on.  roll maps the cells written so far to
\* their value; every other cell of the (frames_num, piano_notes_num) array
\* is zero.  An index outside the array raises IndexError.
RECURSIVE OnsetRollWrites(_, _, _, _, _)
OnsetRollWrites(roll, i, center_idx, frames_num, piano_note) ==
    IF i >= J THEN [roll |-> roll, raises |-> FALSE]
    ELSE IF \/ ~IndexOk(piano_note, PianoNotesNum)
            \/ ~IndexOk(center_idx - i, frames_num)
            \/ ~IndexOk(center_idx + i, frames_num)
    THEN [roll |-> roll, raises |-> TRUE]
    ELSE LET col == NormIndex(piano_note, PianoNotesNum)
             value == Rat(J - i, J)
             lo == <<NormIndex(center_idx - i, frames_num), col>>
             hi == <<NormIndex(center_idx + i, frames_num), col>>
             roll1 == [c \in DOMAIN roll \cup {lo} |-> IF c = lo THEN value ELSE roll[c]]
             roll2 == [c \in DOMAIN roll1 \cup {hi} |-> IF c = hi THEN value ELSE roll1[c]]
         IN  OnsetRollWrites(roll2, i + 1, center_idx, frames_num, piano_note)

get_single_note_onset_roll_CeilCentre(segment_seconds, frames_per_second, piano_note) ==
    LET frames_num == OnsetRollFramesNum(segment_seconds, frames_per_second)
        center_idx == (frames_num + 1) \div 2
        written == OnsetRollWrites(<<>>, 0, center_idx, frames_num, piano_note)
    IN  IF written.raises THEN Raised
        ELSE [ret |-> "ok", frames_num |-> frames_num,
              shape |-> <<frames_num, PianoNotesNum>>, onset_roll |-> written.roll]

\* center_idx = frames_num // 2; the loop writes 1.0 - (1.0 / J) * i at
\* center_idx - i and center_idx + i for i = 0..J-1.
get_single_note_onset_roll(segment_seconds, frames_per_second, piano_note) ==
    LET frames_num == OnsetRollFramesNum(segment_seconds, frames_per_second)
        center_idx == frames_num \div 2
        written == OnsetRollWrites(<<>>, 0, center_idx, frames_num, piano_note)
    IN  IF written.raises THEN Raised
        ELSE [ret |-> "ok", frames_num |-> frames_num,
              shape |-> <<frames_num, PianoNotesNum>>, onset_roll |-> written.roll]

\* The arguments of a call of get_single_note_onset_roll.
InitOnsetRoll ==
    /\ cls = "get_single_note_onset_roll"
    /\ cfg \in [segment_seconds : 0..MaxSegment, frames_per_second : 1..MaxFps,
                piano_note : (-1)..(PianoNotesNum - 1)]
    /\ store = [none |-> TRUE]
    /\ tmp = 0
    /\ data_dict = NoResult
    /\ random_state = 0
    /\ handles = {}

CallOnsetRoll ==
    /\ cls = "get_single_note_onset_roll"
    /\ data_dict' = get_single_note_onset_roll(cfg.segment_seconds, cfg.frames_per_second,
                                               cfg.piano_note)
    /\ UNCHANGED <<cls, cfg, store, tmp, random_state, handles>>

SpecOnsetRoll == InitOnsetRoll /\ [][CallOnsetRoll]_vars

----------------------------------------------------------------------------
(* DatasetInstrumentsClassification *)

\* The segment is 2 s long, the tracks hold up to 2 * MaxTrackLen samples
\* and the notes start within the first MaxTrackLen seconds.
ClassificationSegment == 2 * TimeDen
ClassificationTracks ==
    [exists : BOOLEAN, track_length : 0..(2 * MaxTrackLen), content : {"ramp"}]
OnsetTimes == 0..(MaxTrackLen * TimeDen)

\* meta['pitch']: a pitch below the roll's range, its lowest pitch, and the
\* first pitch above it.
MetaPitches == {BeginNote - 1, BeginNote, BeginNote + PianoNotesNum}

\* meta['plugin_name']: a label of PLUGIN_LB_TO_IX or another name.
MetaPluginNames == PluginNames \cup {"unknown"}

\* start_time = onset_time - self.segment_seconds / 2, set to 0 when it is
\* negative; start_sample = int(start_time * self.sample_rate).
ClassificationStartSample(onset_time, segment_seconds) ==
    IF 2 * onset_time - segment_seconds < 0 THEN 0
    ELSE IntTrunc((2 * onset_time - segment_seconds) * SampleRate, 2 * TimeDen)

\* The window read: end_sample = start_sample + self.segment_samples, and
\* both are moved back by segment_samples when end_sample >= the number of
\* stored samples.
ClassificationWindow(onset_time, segment_seconds, track_length) ==
    LET segment_samples == SegmentSamples(segment_seconds)
        start_sample == ClassificationStartSample(onset_time, segment_seconds)
        end_sample == start_sample + segment_samples
    IN  IF end_sample >= track_length
        THEN [start_sample |-> start_sample - segment_samples,
              end_sample |-> end_sample - segment_samples]
        ELSE [start_sample |-> start_sample, end_sample |-> end_sample]

\* hf['waveform'][start_sample:end_sample] where the bounds, after
\* slice.indices, are in reverse order: h5py returns an empty array or
\* raises ValueError, depending on its version.
ReverseSelection(track, start_sample, end_sample) ==
    SliceBound(end_sample, track.track_length) < SliceBound(start_sample, track.track_length)

\* target = np.zeros(self.classes_num); target[plugin_id] = 1
OneHot(classes_num, plugin_id) == [ix \in 0..(classes_num - 1) |-> IF ix = plugin_id THEN 1 ELSE 0]

\* DatasetInstrumentsClassification.__init__, and the waveform file of the
\* descriptor.
InitClassification ==
    /\ cls = "DatasetInstrumentsClassification"
    /\ cfg \in [segment_seconds : {ClassificationSegment}, frames_per_second : {4},
                augmentor : {"none", "random"}, classes_num : {PLUGIN_LABELS_NUM}]
    /\ store \in [track : ClassificationTracks]
    /\ tmp = 0
    /\ data_dict = NoResult
    /\ random_state = 0
    /\ handles = {}

\* DatasetInstrumentsClassification.__getitem__(meta) with meta['start'] =
\* onset_time, meta['pitch'] = pitch and meta['plugin_name'] = plugin_name.
Classification__getitem__(onset_time, pitch, plugin_name, effect) ==
    /\ cls = "DatasetInstrumentsClassification"
    /\ LET window == ClassificationWindow(onset_time, cfg.segment_seconds,
                                          store.track.track_length)
           read == ReadWaveform(store.track, window.start_sample, window.end_sample)
           waveform == IF effect = "none" THEN read ELSE ApplyAugmentor(effect, read)
           roll == get_single_note_onset_roll(cfg.segment_seconds, cfg.frames_per_second,
                                              pitch - BeginNote)
           returned == [ret |-> "ok",
                        onset_time |-> onset_time,
                        start_sample |-> window.start_sample,
                        end_sample |-> window.end_sample,
                        waveform |-> waveform,
                        onset_roll |-> roll.onset_roll,
                        target |-> OneHot(cfg.classes_num, PLUGIN_LB_TO_IX(plugin_name))]
       IN  IF \/ plugin_name \notin PluginNames
              \/ ~store.track.exists
              \/ roll.ret = "raise"
              \/ ~IndexOk(PLUGIN_LB_TO_IX(plugin_name), cfg.classes_num)
           THEN data_dict' = Raised
           ELSE IF ReverseSelection(store.track, window.start_sample, window.end_sample)
           THEN data_dict' \in {Raised, returned}
           ELSE data_dict' = returned
    /\ handles' = IF plugin_name \in PluginNames /\ store.track.exists
                  THEN WithFile(handles, "waveform_hdf5") ELSE handles
    /\ UNCHANGED <<cls, cfg, store, tmp, random_state>>

NextClassification ==
    /\ cls = "DatasetInstrumentsClassification"
    /\ \E onset_time \in OnsetTimes, pitch \in MetaPitches, plugin_name \in MetaPluginNames,
          effect \in EffectsOf(cfg.augmentor) :
        Classification__getitem__(onset_time, pitch, plugin_name, effect)

SpecClassification == InitClassification /\ [][NextClassification]_vars

----------------------------------------------------------------------------
(* CompoundDataset *)

\* np.sum(x ** 2)
RECURSIVE SumSquares(_, _)
SumSquares(x, i) ==
    IF i > Len(x) THEN FloatZero ELSE FAdd(FMul(x[i], x[i]), SumSquares(x, i + 1))

\* energy(x, valid_length) = np.sum(x ** 2) / valid_length
energy(x, valid_length) == FDiv(SumSquares(x, 1), Rat(valid_length, 1))

MixRatio_OverrideFirst(e1, e2) ==
    LET first == IF e2 = FloatZero THEN FloatOne ELSE FSqrt(FDiv(e2, e1))
    IN  IF e1 = FloatZero THEN FloatZero ELSE first

MixRatio_NoSqrt(e1, e2) ==
    LET first == IF e1 = FloatZero THEN FloatZero ELSE FDiv(e2, e1)
    IN  IF e2 = FloatZero THEN FloatOne ELSE first

\* ratio: 0 if e1 == 0 else (e2 / e1) ** 0.5; then 1 if e2 == 0.
\* (nan == 0 is false.)
MixRatio(e1, e2) ==
    LET first == IF e1 = FloatZero THEN FloatZero ELSE FSqrt(FDiv(e2, e1))
    IN  IF e2 = FloatZero THEN FloatOne ELSE first

\* The numpy arrays of the mix as objects: arrays[k] is the contents of the
\* array object k.  Objects 1..n are the constituents' waveforms.
\* ratio * x makes a new array.
Scaled(ratio, x) == [i \in 1..Len(x) |-> FMul(ratio, x[i])]

\* a += b writes the sum into the object a names.
IAdd(arrays, dst, src) ==
    [arrays EXCEPT ![dst] = [i \in 1..Len(arrays[dst]) |-> FAdd(arrays[dst][i], arrays[src][i])]]

MixArrays_InPlace(ratio, w) ==
    LET a0 == [w EXCEPT ![1] = Scaled(ratio, w[1])]
        a1 == IAdd(a0, 1, 2)
        a2 == IAdd(a1, 1, 3)
        a3 == IAdd(a2, 1, 5)
    IN  [arrays |-> a3, out |-> 1]

\* new_data_dict['waveform'] = ratio * list_data_dict[0]['waveform'], then
\* new_data_dict['waveform'] += list_data_dict[k]['waveform'] for k in
\* [1, 2, 4]: the arrays afterwards, and the object that is the mixture.
MixArrays(ratio, w) ==
    LET out == Len(w) + 1
        a0 == [k \in 1..out |-> IF k < out THEN w[k] ELSE Scaled(ratio, w[1])]
        a1 == IAdd(a0, out, 2)
        a2 == IAdd(a1, out, 3)
        a3 == IAdd(a2, out, 5)
    IN  [arrays |-> a3, out |-> out]

\* The mixture waveform.
MixWaveform(ratio, w) == MixArrays(ratio, w).arrays[MixArrays(ratio, w).out]

\* The keys a constituent's data_dict holds besides waveform and
\* valid_length: one per program of the constituent.
RECURSIVE KeysCollide(_, _)
KeysCollide(list_programs, k) ==
    IF k > Len(list_programs) THEN FALSE
    ELSE \/ \E h \in 1..(k - 1) : list_programs[h] \cap list_programs[k] # {}
         \/ KeysCollide(list_programs, k + 1)

CompoundTracks ==
    { t \in [exists : {TRUE}, track_length : {0, 2}, content : {"full", "silent"}] :
        t.content = "silent" => t.track_length = 2 }
PassTrack == [exists |-> TRUE, track_length |-> 2, content |-> "ramp"]
MissingTrack == [exists |-> FALSE, track_length |-> 0, content |-> "ramp"]

DisjointPrograms == <<{"0"}, {"16"}, {"33"}, {"48"}, {"percussion"}>>

\* CompoundDataset.__init__: datasets_num constituent Datasets that share
\* segment_seconds and the augmentor; tmp counts the calls of the compound
\* dataset and of each constituent.
InitCompound ==
    /\ cls = "CompoundDataset"
    /\ \/ /\ cfg \in [segment_seconds : {4}, augmentor : {"none", "random"},
                      datasets_num : {5}, list_programs : {DisjointPrograms}]
          /\ store \in [tracks : { <<r, PassTrack, PassTrack, t, PassTrack>> :
                                      r \in CompoundTracks, t \in CompoundTracks }]
       \/ /\ cfg \in [segment_seconds : {4}, augmentor : {"none"},
                      datasets_num : {5},
                      list_programs : {DisjointPrograms,
                                       <<{"0"}, {"16"}, {"0", "33"}, {"48"}, {"percussion"}>>}]
          /\ store \in [tracks : { <<PassTrack, PassTrack, m, PassTrack, PassTrack>> :
                                      m \in {PassTrack, MissingTrack} }]
       \/ /\ cfg \in [segment_seconds : {4}, augmentor : {"none"},
                      datasets_num : 2..6, list_programs : {DisjointPrograms}]
          /\ store \in [tracks : { [k \in 1..6 |-> PassTrack] }]
    /\ tmp = [self |-> 0, datasets |-> [k \in 1..cfg.datasets_num |-> 0]]
    /\ data_dict = NoResult
    /\ random_state = 0
    /\ handles = {}

LoadedBeforeFailure_SkipMissing(list_meta) ==
    LET bad == { k \in 1..cfg.datasets_num : k > Len(list_meta) }
    IN  IF bad = {} THEN cfg.datasets_num
        ELSE (CHOOSE k \in bad : \A h \in bad : k <= h) - 1

\* The constituents loaded before the first failure:
\* for k in range(datasets_num): self.datasets[k].__getitem__(list_meta[k]).
\* list_meta[k] past the end of list_meta raises IndexError.
LoadedBeforeFailure(list_meta) ==
    LET bad == { k \in 1..cfg.datasets_num : k > Len(list_meta) \/ ~store.tracks[k].exists }
    IN  IF bad = {} THEN cfg.datasets_num
        ELSE (CHOOSE k \in bad : \A h \in bad : k <= h) - 1

\* CompoundDataset.__getitem__(list_meta); effects[k] is what the augmentor
\* does in the k-th constituent's call.
Compound__getitem__(list_meta, effects) ==
    /\ cls = "CompoundDataset"
    /\ tmp.self < MaxCalls
    /\ \A k \in 1..cfg.datasets_num : tmp.datasets[k] < MaxCalls
    /\ IF Len(list_meta) # 5
       THEN data_dict' = [ret |-> "raise", list_meta |-> list_meta] /\ tmp' = tmp
       ELSE LET loaded == LoadedBeforeFailure(list_meta)
                counted == [tmp EXCEPT !.datasets =
                               [k \in 1..cfg.datasets_num |->
                                   IF k <= loaded THEN tmp.datasets[k] + 1 ELSE tmp.datasets[k]]]
            IN  IF \/ loaded < cfg.datasets_num
                   \/ KeysCollide([k \in 1..cfg.datasets_num |-> cfg.list_programs[k]], 1)
                   \/ cfg.datasets_num < 5
                THEN data_dict' = [ret |-> "raise", list_meta |-> list_meta] /\ tmp' = counted
                ELSE \E list_data_dict \in
                        { [k \in 1..cfg.datasets_num |->
                              LoadSegment(cfg, store.tracks[k], list_meta[k], effects[k])] } :
                     LET e1 == energy(list_data_dict[1].waveform, list_data_dict[1].valid_length)
                         e2 == energy(list_data_dict[4].waveform, list_data_dict[4].valid_length)
                         ratio == MixRatio(e1, e2)
                     IN  \E mix \in { MixArrays(ratio,
                                [k \in 1..cfg.datasets_num |-> list_data_dict[k].waveform]) } :
                         /\ data_dict' =
                               [ret |-> "ok",
                                list_meta |-> list_meta,
                                returned |-> list_data_dict,
                                list_data_dict |->
                                    [k \in 1..cfg.datasets_num |->
                                        [waveform |-> mix.arrays[k],
                                         valid_length |-> list_data_dict[k].valid_length]],
                                e1 |-> e1, e2 |-> e2, ratio |-> ratio,
                                waveform |-> mix.arrays[mix.out]]
                         /\ tmp' = [counted EXCEPT !.self = tmp.self + 1]
    /\ UNCHANGED <<cls, cfg, store, random_state, handles>>

\* The descriptor lists of the model: start times for the reference and the
\* target constituent, 0 for the others; lists of 2 to 6 descriptors.
ListMetas ==
    { <<a, 0, 0, b, 0>> : a \in {0, 2, 4}, b \in {0, 2, 4} }
        \cup { [k \in 1..n |-> 0] : n \in 2..6 }

\* What the augmentor does in the five constituents' calls: any effect on
\* the reference, any on the target, one on the pass-through constituents.
CompoundEffects(augmentor) ==
    { <<a, p, p, b, p>> : a \in EffectsOf(augmentor), b \in EffectsOf(augmentor),
                          p \in EffectsOf(augmentor) }

NextCompound ==
    /\ cls = "CompoundDataset"
    /\ \E list_meta \in ListMetas, effects \in CompoundEffects(cfg.augmentor) :
        Compound__getitem__(list_meta, effects)

SpecCompound == InitCompound /\ [][NextCompound]_vars

----------------------------------------------------------------------------
(* collate_fn *)

RECURSIVE Pow2(_)
Pow2(k) == IF k = 0 THEN 1 ELSE 2 * Pow2(k - 1)

\* The float32 nearest to the rational n/d > 0 (round to nearest, ties to
\* even, 24 significant bits), for 2^-7 <= n/d < 2^24.
RoundFloat32(n, d) ==
    LET s == CHOOSE t \in 0..30 : Pow2(23) * d <= n * Pow2(t) /\ n * Pow2(t) < Pow2(24) * d
        q == (n * Pow2(s)) \div d
        r == (n * Pow2(s)) % d
        m == IF 2 * r < d THEN q
             ELSE IF 2 * r > d THEN q + 1
             ELSE IF q % 2 = 0 THEN q ELSE q + 1
    IN  Rat(m, Pow2(s))

\* torch.Tensor(np.array(...)): the values become float32.  A tensor value
\* is its dtype and its number.
ToFloat32(v) ==
    IF v.dtype = "float32" THEN v
    ELSE [dtype |-> "float32",
          val |-> IF v.val.n = 0 THEN v.val ELSE RoundFloat32(v.val.n, v.val.d)]

collate_fn_Reversed(list_data_dict) ==
    IF Len(list_data_dict) = 0 THEN Raised
    ELSE LET keys == DOMAIN list_data_dict[1]
             size == Len(list_data_dict)
         IN  IF \E i \in 1..size : \E key \in keys : key \notin DOMAIN list_data_dict[i]
             THEN Raised
             ELSE [ret |-> "ok",
                   np_data_dict |->
                       [key \in keys |->
                           [i \in 1..size |-> ToFloat32(list_data_dict[size + 1 - i][key])]]]

\* collate_fn(list_data_dict): list_data_dict[0] of an empty list raises
\* IndexError, data_dict[key] of an example without the key raises KeyError.
collate_fn(list_data_dict) ==
    IF Len(list_data_dict) = 0 THEN Raised
    ELSE LET keys == DOMAIN list_data_dict[1]
         IN  IF \E i \in 1..Len(list_data_dict) : \E key \in keys :
                    key \notin DOMAIN list_data_dict[i]
             THEN Raised
             ELSE [ret |-> "ok",
                   np_data_dict |->
                       [key \in keys |->
                           [i \in 1..Len(list_data_dict) |-> ToFloat32(list_data_dict[i][key])]]]

\* The keys of the examples and the values of a key: float32 samples of a
\* waveform, the int valid_length, float64 cells of an onset roll.
CollateKeys == {"waveform", "valid_length", "onset_roll"}
KeyValues(key) ==
    IF key = "waveform"
    THEN {[dtype |-> "float32", val |-> Rat(0, 1)], [dtype |-> "float32", val |-> Rat(1, INT16_SCALE)]}
    ELSE IF key = "valid_length"
    THEN {[dtype |-> "int64", val |-> Rat(0, 1)], [dtype |-> "int64", val |-> Rat(2, 1)]}
    ELSE {[dtype |-> "float64", val |-> Rat(4, 5)], [dtype |-> "float64", val |-> Rat(1, 1)]}

\* The example dictionaries: the waveform and any of the other keys, each
\* with one of its values.
Examples ==
    UNION { { e \in [K -> UNION { KeyValues(k) : k \in K }] : \A k \in K : e[k] \in KeyValues(k) } :
              K \in { L \in SUBSET CollateKeys : "waveform" \in L } }

\* The argument of a call of collate_fn.
InitCollate ==
    /\ cls = "collate_fn"
    /\ cfg \in [list_data_dict : SeqsUpTo(Examples, MaxBatch)]
    /\ store = [none |-> TRUE]
    /\ tmp = 0
    /\ data_dict = NoResult
    /\ random_state = 0
    /\ handles = {}

CallCollate ==
    /\ cls = "collate_fn"
    /\ data_dict' = collate_fn(cfg.list_data_dict)
    /\ UNCHANGED <<cls, cfg, store, tmp, random_state, handles>>

SpecCollate == InitCollate /\ [][CallCollate]_vars

----------------------------------------------------------------------------
(* The module as a whole: an instance of one of the dataset classes, or a  *)
(* call of get_single_note_onset_roll.                                     *)

Init ==
    \/ InitDataset \/ InitCluster \/ InitCount \/ InitOnsetRoll \/ InitClassification \/ InitCompound
    \/ InitCollate \/ InitFilter

Next ==
    \/ NextDataset \/ NextCluster \/ NextCount \/ CallOnsetRoll \/ NextClassification \/ NextCompound
    \/ CallCollate \/ NextFilter

Spec == Init /\ [][Next]_vars

----------------------------------------------------------------------------
(* Properties *)

IsCluster == cls = "DatasetInstrumentsCluster" /\ data_dict.ret = "ok"

\* The stems of the archive and the positions of a stem's notes.
StemIds == 0..(StemsNum(store.events_dict) - 1)
NoteIds(i) == 1..Len(store.events_dict[i].note_event)
NoteOf(i, j) == store.events_dict[i].note_event[j]
WindowEnd == data_dict.start_time + cfg.segment_seconds
PitchInRange(nt) == nt.pitch >= BeginNote /\ nt.pitch < BeginNote + PianoNotesNum

\* The frame index of a segment-local time t >= 0 (in ticks): floor(t * fps).
FrameOf(t) == (t * cfg.frames_per_second) \div TimeDen

\* C1: with no augmentor, Dataset.__getitem__ of an existing track returns
\* exactly segment_samples elements; valid_length is the number of stored
\* samples inside [start_sample, start_sample + segment_samples), that is
\* min(segment_samples, max(0, track_length - start_sample)); the first
\* valid_length elements are the stored samples, the rest are zero.
C1_WaveformAndValidLength ==
    (cls = "Dataset" /\ data_dict.ret = "ok" /\ cfg.augmentor = "none") =>
        LET segment_samples == (SampleRate * cfg.segment_seconds) \div TimeDen
            start_sample == (data_dict.start_time * SampleRate) \div TimeDen
            available == Min(segment_samples, Max(0, store.track.track_length - start_sample))
        IN  /\ Len(data_dict.waveform) = segment_samples
            /\ data_dict.valid_length = available
            /\ \A i \in 1..segment_samples :
                  data_dict.waveform[i] =
                      IF i <= available
                      THEN Rat(start_sample + i, INT16_SCALE)
                      ELSE Rat(0, 1)

\* C1 witness: a window that runs past the end of the track was padded.
C1_Witness ==
    /\ cls = "Dataset" /\ data_dict.ret = "ok" /\ cfg.augmentor = "none"
    /\ data_dict.valid_length > 0
    /\ data_dict.valid_length < Len(data_dict.waveform)

\* C2 (as claimed): every note whose interval overlaps the window and whose
\* pitch is in the note range has an onset marker at its pitch and makes the
\* frames from its clamped start frame up to its clamped end frame active,
\* in its stem's rolls and in the mixture rolls, for each of the four
\* overlap shapes.
C2_EveryOverlappingNoteContributes ==
    IsCluster =>
        \A i \in StemIds : \A j \in NoteIds(i) :
            LET nt == NoteOf(i, j)
                inside == data_dict.start_time < nt.start /\ nt.end < WindowEnd
                before_inside == /\ nt.start < data_dict.start_time
                                 /\ data_dict.start_time < nt.end /\ nt.end < WindowEnd
                inside_after == /\ data_dict.start_time < nt.start /\ nt.start < WindowEnd
                                /\ WindowEnd < nt.end
                before_after == nt.start < data_dict.start_time /\ WindowEnd < nt.end
                col == nt.pitch - BeginNote
                first == FrameOf(Max(nt.start - data_dict.start_time, 0))
                last == Min(FrameOf(nt.end - data_dict.start_time), data_dict.frames_num)
                span == { <<f, col>> : f \in first..(last - 1) }
            IN  (nt.start <= nt.end /\ PitchInRange(nt)
                 /\ (inside \/ before_inside \/ inside_after \/ before_after)) =>
                    /\ \E c \in data_dict.stem_onset_rolls[i] : c[2] = col
                    /\ \E c \in data_dict.mixture_onset_roll : c[2] = col
                    /\ span \subseteq data_dict.stem_frame_rolls[i]
                    /\ span \subseteq data_dict.mixture_frame_roll

\* C3 (as claimed): the onset marker of a note whose onset lies inside the
\* window is at the nearest frame, round((start - start_time) * fps)
\* (ties to even, as Python rounds).
C3_OnsetAtNearestFrame ==
    IsCluster =>
        \A i \in StemIds : \A j \in NoteIds(i) :
            LET nt == NoteOf(i, j)
                num == (nt.start - data_dict.start_time) * cfg.frames_per_second
                q == num \div TimeDen
                r == num % TimeDen
                nearest == IF 2 * r < TimeDen THEN q
                           ELSE IF 2 * r > TimeDen THEN q + 1
                           ELSE IF q % 2 = 0 THEN q ELSE q + 1
            IN  (/\ data_dict.start_time < nt.start /\ nt.start < WindowEnd
                 /\ nt.start <= nt.end /\ PitchInRange(nt)
                 /\ Len(store.events_dict[i].note_event) = 1) =>
                    data_dict.stem_onset_rolls[i] = {<<nearest, nt.pitch - BeginNote>>}

\* C4: a note that starts before the window and ends strictly inside it
\* makes the frames 0 up to its end frame active at its pitch (these are
\* all the active cells of a stem that has no other note), and no write of
\* the encoding uses a negative frame index.
C4_LeftClampedSpan ==
    IsCluster =>
        /\ \A f \in data_dict.indices : f >= 0
        /\ \A i \in StemIds : \A j \in NoteIds(i) :
            LET nt == NoteOf(i, j)
                span == { <<f, nt.pitch - BeginNote>> :
                            f \in 0..(FrameOf(nt.end - data_dict.start_time) - 1) }
            IN  (/\ nt.start < data_dict.start_time
                 /\ data_dict.start_time < nt.end /\ nt.end < WindowEnd
                 /\ PitchInRange(nt)) =>
                    /\ span \subseteq data_dict.stem_frame_rolls[i]
                    /\ span \subseteq data_dict.mixture_frame_roll
                    /\ Len(store.events_dict[i].note_event) = 1 =>
                          data_dict.stem_frame_rolls[i] = span

\* C4 witness: a note crossing the left edge was encoded from frame 0 on.
C4_Witness ==
    /\ IsCluster
    /\ \E i \in StemIds : \E j \in NoteIds(i) :
          /\ NoteOf(i, j).start < data_dict.start_time
          /\ data_dict.start_time < NoteOf(i, j).end /\ NoteOf(i, j).end < WindowEnd
          /\ PitchInRange(NoteOf(i, j))
          /\ FrameOf(NoteOf(i, j).end - data_dict.start_time) >= 2
          /\ <<0, NoteOf(i, j).pitch - BeginNote>> \in data_dict.stem_frame_rolls[i]

\* C5 (as claimed): a note with start and end strictly inside the window
\* makes exactly the frames from its start frame to its end frame, both
\* included, active at its pitch, so at least one cell.
C5_SpanIncludesBothFrames ==
    IsCluster =>
        \A i \in StemIds : \A j \in NoteIds(i) :
            LET nt == NoteOf(i, j)
            IN  (/\ data_dict.start_time < nt.start /\ nt.start <= nt.end
                 /\ nt.end < WindowEnd /\ PitchInRange(nt)
                 /\ Len(store.events_dict[i].note_event) = 1) =>
                    data_dict.stem_frame_rolls[i] =
                        { <<f, nt.pitch - BeginNote>> :
                            f \in FrameOf(nt.start - data_dict.start_time)
                                  ..FrameOf(nt.end - data_dict.start_time) }

\* C6 (as claimed): every roll has floor(segment_seconds * fps) + 1 frames
\* (the rolls of DatasetInstrumentsCluster, the roll of
\* get_single_note_onset_roll), and the frame count computed by
\* DatasetInstrumentsCount is that same value.
C6_FrameCountEverywhere ==
    data_dict.ret = "ok" =>
        LET frames == (cfg.segment_seconds * cfg.frames_per_second) \div TimeDen + 1
            InShape(roll) == \A c \in roll : c[1] \in 0..(frames - 1)
        IN  /\ cls = "DatasetInstrumentsCluster" =>
                  /\ data_dict.frames_num = frames
                  /\ InShape(data_dict.mixture_onset_roll)
                  /\ InShape(data_dict.mixture_frame_roll)
                  /\ \A i \in DOMAIN data_dict.sep_frame_rolls :
                        /\ InShape(data_dict.sep_onset_rolls[i])
                        /\ InShape(data_dict.sep_frame_rolls[i])
            /\ cls = "get_single_note_onset_roll" =>
                  /\ data_dict.shape[1] = frames
                  /\ \A c \in DOMAIN data_dict.onset_roll : c[1] \in 0..(frames - 1)
            /\ cls = "DatasetInstrumentsCount" =>
                  data_dict.frames_num = [k |-> "rat", n |-> frames, d |-> 1]

\* C7 (as claimed): slot i holds the rolls of the i-th stem of the stable
\* descending order of activity (activity = number of non-zero cells of the
\* frame roll): among stems of equal activity the one seen first in the
\* archive is ranked first.
C7_TiesKeepArchiveOrder ==
    IsCluster =>
        \A i \in 0..(Min(cfg.max_instruments_num, StemsNum(store.events_dict)) - 1) :
            LET act(t) == Cardinality(data_dict.stem_frame_rolls[t])
                rank(s) == Cardinality({ t \in StemIds :
                               act(t) > act(s) \/ (act(t) = act(s) /\ t < s) })
                s == CHOOSE t \in StemIds : rank(t) = i
            IN  /\ data_dict.sep_onset_rolls[i] = data_dict.stem_onset_rolls[s]
                /\ data_dict.sep_frame_rolls[i] = data_dict.stem_frame_rolls[s]

\* C8: the separated rolls have K = max_instruments_num slots of the roll
\* shape; the first min(K, n) slots hold the rolls of min(K, n) distinct
\* stems, the other slots are all zero, and no dropped stem is more active
\* than a selected one.
C8_SlotsFilledAndPadded ==
    IsCluster =>
        LET n == StemsNum(store.events_dict)
            K == cfg.max_instruments_num
            m == Min(K, n)
            act(t) == Cardinality(data_dict.stem_frame_rolls[t])
            Cells == (0..(data_dict.frames_num - 1)) \X (0..(PianoNotesNum - 1))
        IN  /\ DOMAIN data_dict.sep_onset_rolls = 0..(K - 1)
            /\ DOMAIN data_dict.sep_frame_rolls = 0..(K - 1)
            /\ \A i \in 0..(K - 1) :
                  /\ data_dict.sep_onset_rolls[i] \subseteq Cells
                  /\ data_dict.sep_frame_rolls[i] \subseteq Cells
                  /\ i >= m => /\ data_dict.sep_onset_rolls[i] = {}
                               /\ data_dict.sep_frame_rolls[i] = {}
            /\ \E sel \in [0..(m - 1) -> StemIds] :
                  /\ \A a, b \in 0..(m - 1) : a # b => sel[a] # sel[b]
                  /\ \A a \in 0..(m - 1) :
                        /\ data_dict.sep_onset_rolls[a] = data_dict.stem_onset_rolls[sel[a]]
                        /\ data_dict.sep_frame_rolls[a] = data_dict.stem_frame_rolls[sel[a]]
                  /\ \A d \in StemIds :
                        (\A a \in 0..(m - 1) : sel[a] # d) =>
                            \A a \in 0..(m - 1) : act(d) <= act(sel[a])

\* C8 witness: fewer stems than slots, so a zero slot follows a filled one.
C8_Witness ==
    /\ IsCluster
    /\ StemsNum(store.events_dict) = 2 /\ cfg.max_instruments_num = 3
    /\ data_dict.sep_frame_rolls[1] # {} /\ data_dict.sep_frame_rolls[2] = {}

\* C9: the activity that ranks a stem is the number of non-zero cells of its
\* frame roll; the filled slots are in non-increasing order of activity; no
\* stem is in two slots; the onset and frame roll of a slot are of one stem.
C9_RankedByActivity ==
    IsCluster =>
        LET n == StemsNum(store.events_dict)
            m == Min(cfg.max_instruments_num, n)
        IN  /\ \A t \in StemIds :
                  data_dict.activity[t] = Cardinality(data_dict.stem_frame_rolls[t])
            /\ \A a \in 0..(m - 2) :
                  Cardinality(data_dict.sep_frame_rolls[a])
                      >= Cardinality(data_dict.sep_frame_rolls[a + 1])
            /\ \A a, b \in 0..(m - 1) : a # b => data_dict.locts[a] # data_dict.locts[b]
            /\ \A a \in 0..(m - 1) :
                  /\ data_dict.sep_onset_rolls[a] = data_dict.stem_onset_rolls[data_dict.locts[a]]
                  /\ data_dict.sep_frame_rolls[a] = data_dict.stem_frame_rolls[data_dict.locts[a]]

\* C9 witness: more stems than slots, of three different activities.
C9_Witness ==
    /\ IsCluster
    /\ StemsNum(store.events_dict) = 3 /\ cfg.max_instruments_num = 2
    /\ Cardinality(data_dict.sep_frame_rolls[0]) > Cardinality(data_dict.sep_frame_rolls[1])
    /\ Cardinality(data_dict.sep_frame_rolls[1]) > 0
    /\ \E t \in StemIds : data_dict.activity[t] < Cardinality(data_dict.sep_frame_rolls[1])

IsCompound == cls = "CompoundDataset" /\ data_dict.ret = "ok"
Number(x) == [k |-> "rat", n |-> x, d |-> 1]

\* C10 (as claimed): e_R = 4, e_T = 1 gives ratio 0.5; e_R = 0 gives ratio 0
\* for any e_T, e_T = 0 included; e_T = 0 with e_R > 0 gives ratio 1.
C10_RatioAsClaimed ==
    IsCompound =>
        /\ (data_dict.e1 = Number(4) /\ data_dict.e2 = Number(1)) =>
              data_dict.ratio = [k |-> "rat", n |-> 1, d |-> 2]
        /\ data_dict.e1 = Number(0) => data_dict.ratio = Number(0)
        /\ (data_dict.e2 = Number(0) /\ data_dict.e1.k = "rat" /\ data_dict.e1.n > 0) =>
              data_dict.ratio = Number(1)

\* C10 (amended): e_R = 4, e_T = 1 gives ratio 0.5; e_R = 0 with e_T > 0
\* gives ratio 0; e_T = 0 gives ratio 1, both with e_R > 0 and with e_R = 0.
C10_Ratio ==
    IsCompound =>
        /\ (data_dict.e1 = Number(4) /\ data_dict.e2 = Number(1)) =>
              data_dict.ratio = [k |-> "rat", n |-> 1, d |-> 2]
        /\ (data_dict.e1 = Number(0) /\ data_dict.e2.k = "rat" /\ data_dict.e2.n > 0) =>
              data_dict.ratio = Number(0)
        /\ (data_dict.e2 = Number(0) /\ data_dict.e1.k = "rat" /\ data_dict.e1.n >= 0) =>
              data_dict.ratio = Number(1)

\* C10 witness: a mixture of a silent reference and a silent target.
C10_Witness ==
    /\ IsCompound
    /\ data_dict.e1 = Number(0) /\ data_dict.e2 = Number(0)
    /\ data_dict.ratio = Number(1)

\* C11: the ratio is sqrt(e_T / e_R) when e_R > 0 and e_T > 0 (a value
\* r >= 0 with r * r * e_R = e_T; an irrational value only when e_T / e_R
\* is not the square of a rational), 0 when e_R = 0 and e_T > 0, and 1
\* whenever e_T = 0, whatever e_R is.
C11_RatioRule ==
    IsCompound =>
        /\ (/\ data_dict.e1.k = "rat" /\ data_dict.e1.n > 0
            /\ data_dict.e2.k = "rat" /\ data_dict.e2.n > 0) =>
              LET q == FDiv(data_dict.e2, data_dict.e1)
                  IsSquare(m) == \E r \in 0..m : r * r = m
              IN  /\ data_dict.ratio.k \in {"rat", "irr"}
                  /\ data_dict.ratio.k = "rat" =>
                        /\ data_dict.ratio.n >= 0
                        /\ FMul(FMul(data_dict.ratio, data_dict.ratio), data_dict.e1)
                              = data_dict.e2
                  /\ data_dict.ratio.k = "irr" => ~(IsSquare(q.n) /\ IsSquare(q.d))
        /\ (data_dict.e1 = Number(0) /\ data_dict.e2.k = "rat" /\ data_dict.e2.n > 0) =>
              data_dict.ratio = Number(0)
        /\ data_dict.e2 = Number(0) => data_dict.ratio = Number(1)

\* C11 witness: a reference of energy 1 and a target of energy 4 were mixed
\* with the ratio 2.
C11_Witness ==
    /\ IsCompound
    /\ data_dict.e1 = Number(1) /\ data_dict.e2 = Number(4)
    /\ data_dict.ratio = Number(2)

\* C12: the mixture is, sample by sample, ratio * waveform[0] + waveform[1]
\* + waveform[2] + waveform[4] of the waveforms the constituents returned
\* (the target's waveform, waveform[3], is not a term), and after the mix
\* every constituent's waveform is what the constituent returned.
C12_MixtureFormula ==
    IsCompound =>
        LET w(k) == data_dict.returned[k].waveform
        IN  /\ Len(data_dict.waveform) = Len(w(1))
            /\ \A i \in 1..Len(w(1)) :
                  data_dict.waveform[i] =
                      FAdd(FAdd(FAdd(FMul(data_dict.ratio, w(1)[i]), w(2)[i]), w(3)[i]), w(5)[i])
            /\ \A k \in 1..5 : data_dict.list_data_dict[k].waveform = w(k)

\* C12 witness: a mixture with a ratio that is neither 0 nor 1, of a
\* non-silent reference and a non-silent target.
C12_Witness ==
    /\ IsCompound
    /\ data_dict.ratio = [k |-> "rat", n |-> 1, d |-> 2]
    /\ data_dict.returned[1].waveform[1] = Number(2)
    /\ data_dict.returned[4].waveform[1] = Number(1)
    /\ data_dict.waveform[1] # data_dict.returned[1].waveform[1]

\* C13 (as claimed): for every combination of constituent examples, windows
\* at or past the end of a track included, the energies are not divided by a
\* zero valid_length and neither the ratio nor a sample of the mixture is
\* NaN.
C13_NoDivisionByZeroNoNaN ==
    IsCompound =>
        /\ data_dict.returned[1].valid_length # 0
        /\ data_dict.returned[4].valid_length # 0
        /\ data_dict.ratio.k # "nan"
        /\ \A i \in 1..Len(data_dict.waveform) : data_dict.waveform[i].k # "nan"

\* C14 (as claimed): for every number n >= 2 of constituent datasets whose
\* tracks all exist and whose keys are disjoint, a call with n descriptors
\* returns a mixture.
C14_AnyNumberOfConstituents ==
    (/\ cls = "CompoundDataset" /\ data_dict.ret # "none"
     /\ cfg.datasets_num >= 2
     /\ Len(data_dict.list_meta) = cfg.datasets_num
     /\ \A k \in 1..cfg.datasets_num : store.tracks[k].exists
     /\ \A h, k \in 1..cfg.datasets_num :
           h # k => cfg.list_programs[h] \cap cfg.list_programs[k] = {}) =>
        data_dict.ret = "ok"

IsCollate == cls = "collate_fn" /\ data_dict.ret # "none"
Batch == cfg.list_data_dict

\* C15 (as claimed): collate_fn fails whenever two examples of the batch
\* differ in their key sets, be it that a later example lacks a key of the
\* first one or that some example has a key another one lacks.
C15_MismatchedKeysFail ==
    (IsCollate /\ \E i, j \in 1..Len(Batch) : DOMAIN Batch[i] # DOMAIN Batch[j]) =>
        data_dict.ret = "raise"

\* C16 (as claimed): for a non-empty batch of examples with identical key
\* sets, the result has exactly that key set, and entry i of key k is the
\* value of k in the i-th example.
C16_StackedValuesAsClaimed ==
    (/\ IsCollate /\ Len(Batch) > 0
     /\ \A i, j \in 1..Len(Batch) : DOMAIN Batch[i] = DOMAIN Batch[j]) =>
        /\ data_dict.ret = "ok"
        /\ DOMAIN data_dict.np_data_dict = DOMAIN Batch[1]
        /\ \A k \in DOMAIN Batch[1] :
              /\ DOMAIN data_dict.np_data_dict[k] = 1..Len(Batch)
              /\ \A i \in 1..Len(Batch) : data_dict.np_data_dict[k][i].val = Batch[i][k].val

\* C16 (amended): for a non-empty batch of examples with identical key sets,
\* the result has exactly that key set, and entry i of key k is the value of
\* k in the i-th example as a float32: that value itself when it is a
\* float32 or an integer below 2^24, and otherwise a float32 within the
\* relative distance 2^-24 of it.
C16_StackedValues ==
    (/\ IsCollate /\ Len(Batch) > 0
     /\ \A i, j \in 1..Len(Batch) : DOMAIN Batch[i] = DOMAIN Batch[j]) =>
        /\ data_dict.ret = "ok"
        /\ DOMAIN data_dict.np_data_dict = DOMAIN Batch[1]
        /\ \A k \in DOMAIN Batch[1] :
              /\ DOMAIN data_dict.np_data_dict[k] = 1..Len(Batch)
              /\ \A i \in 1..Len(Batch) :
                    LET out == data_dict.np_data_dict[k][i]
                        in == Batch[i][k]
                        diff == Abs(out.val.n * in.val.d - in.val.n * out.val.d)
                    IN  /\ out.dtype = "float32"
                        /\ diff * Pow2(24) <= Abs(in.val.n) * out.val.d
                        /\ (in.dtype = "float32" \/ in.val.d = 1) => out.val = in.val

\* C16 witness: a batch of two examples that differ in every key was
\* stacked, a float64 0.8 among the values.
C16_Witness ==
    /\ IsCollate /\ data_dict.ret = "ok" /\ Len(Batch) = 2
    /\ DOMAIN Batch[1] = CollateKeys /\ DOMAIN Batch[2] = CollateKeys
    /\ \A k \in CollateKeys : Batch[1][k] # Batch[2][k]
    /\ Batch[2]["onset_roll"].val = [k |-> "rat", n |-> 4, d |-> 5]
    /\ data_dict.np_data_dict["onset_roll"][2].val # Batch[2]["onset_roll"].val

\* C17 (as claimed): example construction is stateless: no __getitem__
\* call changes the state of the dataset instance (its call counter, its
\* random generator).
C17_NoInstanceStateChange ==
    [][tmp' = tmp /\ random_state' = random_state]_vars

\* C18 (as claimed): the stem choice and the plugin_target that
\* DatasetInstrumentsFilter returns for a descriptor do not depend on the
\* requests made before: a request of the descriptor that was requested just
\* before returns the same choice and the same plugin_target.
C18_SameDescriptorSameChoice ==
    [][(/\ cls = "DatasetInstrumentsFilter"
        /\ data_dict.ret = "ok" /\ data_dict'.ret = "ok"
        /\ data_dict'.start_time = data_dict.start_time) =>
           /\ data_dict'.index = data_dict.index
           /\ data_dict'.plugin_target = data_dict.plugin_target]_vars

\* C19 (as claimed): when a __getitem__ call has returned or raised, no file
\* it opened is still open.
C19_NoHandleLeftOpen ==
    data_dict.ret # "none" => handles = {}

\* C20: a __getitem__ call whose descriptor names a missing waveform file,
\* MIDI events file, note archive or stem events file raises and returns no
\* example; CompoundDataset.__getitem__ raises when the track of any one of
\* its constituents is missing.
C20_MissingFileRaises ==
    data_dict.ret # "none" =>
        /\ cls = "Dataset" =>
              /\ ~store.track.exists => data_dict.ret = "raise"
              /\ (cfg.midi_events_hdf5s_dir # "none" /\ ~store.midi_exists) =>
                    data_dict.ret = "raise"
        /\ cls \in {"DatasetInstrumentsCluster", "DatasetInstrumentsCount",
                    "DatasetInstrumentsFilter"} =>
              ((~store.track.exists \/ ~store.pkl_exists) => data_dict.ret = "raise")
        /\ (cls = "DatasetInstrumentsFilter" /\ data_dict.ret = "ok") =>
              store.stem_exists[data_dict.index]
        /\ cls = "CompoundDataset" =>
              ((\E k \in 1..cfg.datasets_num : ~store.tracks[k].exists) =>
                  /\ data_dict.ret = "raise"
                  /\ DOMAIN data_dict = {"ret", "list_meta"})

\* C20 witness: a compound call raised at its third constituent, whose track
\* is missing, after the first two constituents had been loaded.
C20_Witness ==
    /\ cls = "CompoundDataset" /\ data_dict.ret = "raise"
    /\ Len(data_dict.list_meta) = 5
    /\ store.tracks[1].exists /\ store.tracks[2].exists /\ ~store.tracks[3].exists
    /\ tmp.datasets[2] = 1 /\ tmp.datasets[3] = 0 /\ tmp.self = 0

\* C21: round trip.  A single note of a stem, in the roll's pitch range and
\* with its onset inside the window, has its onset marker at one frame f,
\* and the time start_time + f / frames_per_second differs from the note's
\* onset by less than one frame period.
C21_OnsetRoundTrip ==
    IsCluster =>
        \A i \in StemIds : \A j \in NoteIds(i) :
            LET nt == NoteOf(i, j)
            IN  (/\ data_dict.start_time < nt.start /\ nt.start < WindowEnd
                 /\ nt.start <= nt.end /\ PitchInRange(nt)
                 /\ Len(store.events_dict[i].note_event) = 1) =>
                    /\ Cardinality(data_dict.stem_onset_rolls[i]) = 1
                    /\ \A c \in data_dict.stem_onset_rolls[i] :
                          /\ c[2] = nt.pitch - BeginNote
                          /\ Abs((nt.start - data_dict.start_time) * cfg.frames_per_second
                                 - c[1] * TimeDen) < TimeDen

\* C21 witness: an onset that is not on a frame boundary and not in the
\* first frame was encoded, in a window that does not start at 0.
C21_Witness ==
    /\ IsCluster /\ data_dict.start_time > 0
    /\ \E i \in StemIds : \E j \in NoteIds(i) :
          /\ data_dict.start_time < NoteOf(i, j).start /\ NoteOf(i, j).start < WindowEnd
          /\ PitchInRange(NoteOf(i, j))
          /\ ((NoteOf(i, j).start - data_dict.start_time) * cfg.frames_per_second) % TimeDen # 0
          /\ \E c \in data_dict.stem_onset_rolls[i] : c[1] >= 1

\* C24 (as claimed): a stem whose notes all have a pitch below begin_note or
\* at or above begin_note + piano_notes_num has all-zero rolls.
C24_OutOfRangePitchWritesNothing ==
    IsCluster =>
        \A i \in StemIds :
            (\A j \in NoteIds(i) : ~PitchInRange(NoteOf(i, j))) =>
                /\ data_dict.stem_onset_rolls[i] = {}
                /\ data_dict.stem_frame_rolls[i] = {}

\* C25: when every note of the archive has start <= end (and a pitch that
\* indexes the roll), the call does not raise, every onset marker is at a
\* frame in 0..frames_num - 1 and every bound of a frame slice is in
\* 0..frames_num.
C25_FrameIndicesInBounds ==
    (/\ cls = "DatasetInstrumentsCluster" /\ data_dict.ret # "none"
     /\ store.track.exists /\ store.pkl_exists
     /\ \A i \in StemIds : \A j \in NoteIds(i) :
           /\ NoteOf(i, j).start <= NoteOf(i, j).end
           /\ NoteOf(i, j).pitch >= BeginNote - PianoNotesNum) =>
        /\ data_dict.ret = "ok"
        /\ \A f \in data_dict.indices : 0 <= f /\ f <= data_dict.frames_num
        /\ \A c \in data_dict.mixture_onset_roll : 0 <= c[1] /\ c[1] <= data_dict.frames_num - 1
        /\ \A c \in data_dict.mixture_frame_roll : 0 <= c[1] /\ c[1] <= data_dict.frames_num - 1

\* C25 witness: a note that starts inside the window and ends after it was
\* encoded up to the last frame.
C25_Witness ==
    /\ IsCluster
    /\ \E i \in StemIds : \E j \in NoteIds(i) :
          /\ data_dict.start_time < NoteOf(i, j).start /\ NoteOf(i, j).start < WindowEnd
          /\ NoteOf(i, j).end > WindowEnd + TimeDen
          /\ PitchInRange(NoteOf(i, j))
          /\ <<data_dict.frames_num - 1, NoteOf(i, j).pitch - BeginNote>>
                \in data_dict.stem_frame_rolls[i]

\* C26 (as claimed): in every stem's roll pair and in the mixture roll pair
\* every cell with an onset marker is frame-active, so a stem with an onset
\* marker has activity > 0.
C26_OnsetImpliesFrame ==
    IsCluster =>
        /\ data_dict.mixture_onset_roll \subseteq data_dict.mixture_frame_roll
        /\ \A i \in StemIds :
              /\ data_dict.stem_onset_rolls[i] \subseteq data_dict.stem_frame_rolls[i]
              /\ data_dict.stem_onset_rolls[i] # {} => data_dict.activity[i] > 0

\* C27: the mixture rolls are the cell-wise union of the rolls of all the
\* stems; every slot roll is contained in the mixture roll of its kind; with
\* at most K stems the union of the slot rolls is the mixture roll.
C27_MixtureIsUnion ==
    IsCluster =>
        LET K == cfg.max_instruments_num
        IN  /\ \A c \in (0..(data_dict.frames_num - 1)) \X (0..(PianoNotesNum - 1)) :
                  /\ c \in data_dict.mixture_onset_roll
                        <=> \E i \in StemIds : c \in data_dict.stem_onset_rolls[i]
                  /\ c \in data_dict.mixture_frame_roll
                        <=> \E i \in StemIds : c \in data_dict.stem_frame_rolls[i]
            /\ \A a \in 0..(K - 1) :
                  /\ data_dict.sep_onset_rolls[a] \subseteq data_dict.mixture_onset_roll
                  /\ data_dict.sep_frame_rolls[a] \subseteq data_dict.mixture_frame_roll
            /\ StemsNum(store.events_dict) <= K =>
                  /\ UNION { data_dict.sep_onset_rolls[a] : a \in 0..(K - 1) }
                        = data_dict.mixture_onset_roll
                  /\ UNION { data_dict.sep_frame_rolls[a] : a \in 0..(K - 1) }
                        = data_dict.mixture_frame_roll

\* C27 witness: two stems with different cells, both selected; the mixture
\* is neither stem's roll.
C27_Witness ==
    /\ IsCluster
    /\ StemsNum(store.events_dict) = 2 /\ cfg.max_instruments_num >= 2
    /\ data_dict.mixture_frame_roll # data_dict.stem_frame_rolls[0]
    /\ data_dict.mixture_frame_roll # data_dict.stem_frame_rolls[1]
    /\ data_dict.sep_frame_rolls[1] # {}

\* The stems of the archive with a note whose start or end lies strictly
\* inside the window that starts at st.
Qualifying(st) ==
    { i \in StemIds :
        \E j \in NoteIds(i) :
            \/ st < NoteOf(i, j).start /\ NoteOf(i, j).start < st + cfg.segment_seconds
            \/ st < NoteOf(i, j).end /\ NoteOf(i, j).end < st + cfg.segment_seconds }

C28_TargetIsCappedCount ==
    (cls = "DatasetInstrumentsCount" /\ data_dict.ret = "ok") =>
        /\ data_dict.target[1] =
              Min(cfg.max_instruments_num - 1, Cardinality(Qualifying(data_dict.start_time)))
        /\ 0 <= data_dict.target[1]
        /\ data_dict.target[1] <= cfg.max_instruments_num - 1

\* The frame count of the call's arguments, and the value of a cell of the
\* returned roll.
FramesNumOfCall == (cfg.segment_seconds * cfg.frames_per_second) \div TimeDen + 1
CellValue(cell) ==
    IF cell \in DOMAIN data_dict.onset_roll THEN data_dict.onset_roll[cell] ELSE FloatZero

\* The roll is the triangle of the claim: 1 - i/5 at the frames c - i and
\* c + i of column piano_note for i = 0..4, zero in every other cell.
IsTriangle ==
    LET c == FramesNumOfCall \div 2
    IN  /\ data_dict.shape = <<FramesNumOfCall, PianoNotesNum>>
        /\ DOMAIN data_dict.onset_roll
              \subseteq (0..(FramesNumOfCall - 1)) \X (0..(PianoNotesNum - 1))
        /\ \A f \in 0..(FramesNumOfCall - 1) : \A p \in 0..(PianoNotesNum - 1) :
              CellValue(<<f, p>>) =
                  IF p = cfg.piano_note /\ Abs(f - c) <= 4
                  THEN Rat(5 - Abs(f - c), 5) ELSE FloatZero

\* C30 (as claimed): for every frames_num >= 1 and every piano_note in
\* [0, piano_notes_num) get_single_note_onset_roll returns the triangle.
C30_TriangleAsClaimed ==
    (/\ cls = "get_single_note_onset_roll" /\ data_dict.ret # "none"
     /\ cfg.piano_note >= 0 /\ FramesNumOfCall >= 1) =>
        data_dict.ret = "ok" /\ IsTriangle

\* C30 (amended): for every piano_note in [0, piano_notes_num) the function
\* returns the triangle when frames_num >= 9, and raises when frames_num <= 8
\* (the frame c + 4 is outside the roll).
C30_Triangle ==
    (/\ cls = "get_single_note_onset_roll" /\ data_dict.ret # "none"
     /\ cfg.piano_note >= 0) =>
        /\ FramesNumOfCall >= 9 => data_dict.ret = "ok" /\ IsTriangle
        /\ FramesNumOfCall <= 8 => data_dict.ret = "raise"

\* C30 witness: a roll with an odd number of frames, more than 9, was
\* returned for the last column.
C30_Witness ==
    /\ cls = "get_single_note_onset_roll" /\ data_dict.ret = "ok"
    /\ cfg.piano_note = PianoNotesNum - 1
    /\ FramesNumOfCall > 9 /\ FramesNumOfCall % 2 = 1
    /\ CellValue(<<FramesNumOfCall \div 2 + 4, cfg.piano_note>>) = Rat(1, 5)

\* A call of DatasetInstrumentsClassification.__getitem__ has returned, for
\* a note whose onset is within the stored samples of the track.
IsClassification ==
    /\ cls = "DatasetInstrumentsClassification" /\ data_dict.ret = "ok"
    /\ data_dict.onset_time * SampleRate <= store.track.track_length * TimeDen

\* C22 (as claimed): the returned waveform has exactly segment_samples
\* samples and was read from a window start_sample..end_sample inside the
\* stored samples.
C22_WaveformLengthAndWindow ==
    IsClassification =>
        /\ Len(data_dict.waveform) = SegmentSamples(cfg.segment_seconds)
        /\ 0 <= data_dict.start_sample
        /\ data_dict.end_sample <= store.track.track_length

\* C29 (as claimed): the onset lies segment_seconds / 2 after the start of
\* the window that was loaded (up to the truncation of the start to a whole
\* sample), where the peak of onset_roll is.
C29_OnsetAtCentre ==
    IsClassification =>
        LET loaded_start == SliceBound(data_dict.start_sample, store.track.track_length)
            \* 2 * TimeDen * sample_rate * (onset - loaded start - segment / 2)
            offset == (2 * data_dict.onset_time - cfg.segment_seconds) * SampleRate
                      - 2 * TimeDen * loaded_start
        IN  0 <= offset /\ offset < 2 * TimeDen

====
